---------------------------- MODULE Spec2Model ----------------------------
(***************************************************************************)
(* TelegramGroupie: the secure message archive.                            *)
(*                                                                         *)
(* The module models                                                       *)
(*   - the three encryption services (encryption.py, mock_encryption.py,   *)
(*     implementations/test.py), with the base64 and UTF-8 conversions     *)
(*     they call computed byte by byte;                                    *)
(*   - the two in-memory repositories (implementations/test.py and         *)
(*     mock_firestore.py): add, document, where, limit, start_after,       *)
(*     stream;                                                             *)
(*   - the application of main_simplified.py: webhook, get_messages,       *)
(*     process_messages_batch, over the services of a service container.   *)
(*                                                                         *)
(* A Python str is a sequence of code points, a bytes object a sequence of *)
(* numbers in 0..255.  A call that raises is modelled by a result record   *)
(* whose ok field is FALSE.                                                *)
(***************************************************************************)
EXTENDS Integers, Sequences, FiniteSets, TLC

VARIABLES
    svc,      \* the EncryptionService the container built
    store,    \* _collections["messages"]: the documents, in insertion order
    sent,     \* the replies the bot sent (TestTelegramBot.sent_messages)
    ingested, \* history: id, chat, user and text of each message the webhook stored
    delivered,\* number of webhook requests answered so far
    resp,     \* the last HTTP response, with the request that produced it
    pg,       \* a client walking the pages of GET /messages
    lab,      \* an encryption service exercised on its own
    repo,     \* a repository query exercised on its own
    conc,     \* callers that run add() and stream() on one client at once
    apps      \* the applications create_app built, and their containers

vars == <<svc, store, sent, ingested, delivered, resp, pg, lab, repo, conc, apps>>

-----------------------------------------------------------------------------
(* Bounds of the model *)

\* longest plaintext, in code points
MaxLen == 2
\* most webhook updates delivered
MaxUpdates == 1

-----------------------------------------------------------------------------
(* Python values *)

\* the code points plaintexts are made of: "A", "é" (2 bytes), "€" (3 bytes),
\* U+1F600 (4 bytes)
CodePoints == {65, 233, 8364, 128512}

\* all sequences over S of length at most n
RECURSIVE SeqsUpTo(_, _)
SeqsUpTo(S, n) ==
    IF n = 0 THEN {<<>>}
    ELSE LET shorter == SeqsUpTo(S, n - 1)
         IN  shorter \cup {Append(s, x) : s \in {t \in shorter : Len(t) = n - 1}, x \in S}

Plaintexts == SeqsUpTo(CodePoints, MaxLen)

\* s[:n]
Prefix(s, n) == SubSeq(s, 1, IF Len(s) < n THEN Len(s) ELSE n)

\* s[n:] (n counted from 0)
Suffix(s, n) == IF n >= Len(s) THEN <<>> ELSE SubSeq(s, n + 1, Len(s))

RECURSIVE Concat(_)
Concat(ss) == IF ss = <<>> THEN <<>> ELSE Head(ss) \o Concat(Tail(ss))

\* str(n) for an int n
RECURSIVE NatToStr(_)
NatToStr(n) ==
    IF n < 10 THEN <<48 + n>> ELSE Append(NatToStr(n \div 10), 48 + (n % 10))

IntToStr(n) == IF n < 0 THEN <<45>> \o NatToStr(0 - n) ELSE NatToStr(n)

RECURSIVE DigitsToNat(_, _)
DigitsToNat(s, acc) ==
    IF s = <<>> THEN acc ELSE DigitsToNat(Tail(s), acc * 10 + (Head(s) - 48))

IsDigits(s) == s # <<>> /\ \A i \in 1..Len(s) : s[i] \in 48..57

\* int(s) for a str s: [ok, n]; ok is FALSE where Python raises ValueError
PyInt(s) ==
    IF s # <<>> /\ s[1] = 45 /\ IsDigits(Tail(s))
        THEN [ok |-> TRUE, n |-> 0 - DigitsToNat(Tail(s), 0)]
    ELSE IF IsDigits(s)
        THEN [ok |-> TRUE, n |-> DigitsToNat(s, 0)]
    ELSE [ok |-> FALSE, n |-> 0]

-----------------------------------------------------------------------------
(* str.encode("utf-8") and bytes.decode("utf-8") *)

Utf8Char(c) ==
    IF c < 128 THEN <<c>>
    ELSE IF c < 2048 THEN <<192 + (c \div 64), 128 + (c % 64)>>
    ELSE IF c < 65536
        THEN <<224 + (c \div 4096), 128 + ((c \div 64) % 64), 128 + (c % 64)>>
    ELSE <<240 + (c \div 262144), 128 + ((c \div 4096) % 64),
           128 + ((c \div 64) % 64), 128 + (c % 64)>>

RECURSIVE Utf8Encode(_)
Utf8Encode(s) == IF s = <<>> THEN <<>> ELSE Utf8Char(Head(s)) \o Utf8Encode(Tail(s))

IsCont(b) == b \in 128..191

\* number of bytes of the character that starts with byte b, 0 if none does
Utf8Width(b) ==
    IF b < 128 THEN 1
    ELSE IF b \in 194..223 THEN 2
    ELSE IF b \in 224..239 THEN 3
    ELSE IF b \in 240..244 THEN 4
    ELSE 0

\* the code point of the first character of b, -1 when b does not start
\* with a well-formed character (truncated, overlong, surrogate, too large)
Utf8First(b) ==
    LET w == Utf8Width(b[1]) IN
    IF w = 0 \/ Len(b) < w THEN -1
    ELSE IF w = 1 THEN b[1]
    ELSE IF \E i \in 2..w : ~IsCont(b[i]) THEN -1
    ELSE IF w = 2 THEN (b[1] - 192) * 64 + (b[2] - 128)
    ELSE IF w = 3 THEN
        LET c == (b[1] - 224) * 4096 + (b[2] - 128) * 64 + (b[3] - 128)
        IN  IF c < 2048 \/ c \in 55296..57343 THEN -1 ELSE c
    ELSE
        LET c == (b[1] - 240) * 262144 + (b[2] - 128) * 4096
                 + (b[3] - 128) * 64 + (b[4] - 128)
        IN  IF c < 65536 \/ c > 1114111 THEN -1 ELSE c

\* bytes.decode("utf-8"): [ok, s]; ok is FALSE where Python raises
RECURSIVE Utf8Decode(_)
Utf8Decode(b) ==
    IF b = <<>> THEN [ok |-> TRUE, s |-> <<>>]
    ELSE LET c == Utf8First(b) IN
         IF c < 0 THEN [ok |-> FALSE, s |-> <<>>]
         ELSE LET rest == Utf8Decode(Suffix(b, Utf8Width(b[1])))
              IN  [ok |-> rest.ok, s |-> IF rest.ok THEN <<c>> \o rest.s ELSE <<>>]

-----------------------------------------------------------------------------
(* base64.b64encode and base64.b64decode *)

\* the character of a 6-bit value in the standard alphabet
B64Char(v) ==
    IF v < 26 THEN 65 + v
    ELSE IF v < 52 THEN 97 + (v - 26)
    ELSE IF v < 62 THEN 48 + (v - 52)
    ELSE IF v = 62 THEN 43
    ELSE 47

\* the 6-bit value of a character, -1 for a character outside the alphabet
B64Value(c) ==
    IF c \in 65..90 THEN c - 65
    ELSE IF c \in 97..122 THEN c - 97 + 26
    ELSE IF c \in 48..57 THEN c - 48 + 52
    ELSE IF c = 43 THEN 62
    ELSE IF c = 47 THEN 63
    ELSE -1

B64Pad == 61

RECURSIVE B64Encode(_)
B64Encode(b) ==
    IF b = <<>> THEN <<>>
    ELSE IF Len(b) = 1 THEN
        <<B64Char(b[1] \div 4), B64Char((b[1] % 4) * 16), B64Pad, B64Pad>>
    ELSE IF Len(b) = 2 THEN
        <<B64Char(b[1] \div 4), B64Char((b[1] % 4) * 16 + (b[2] \div 16)),
          B64Char((b[2] % 16) * 4), B64Pad>>
    ELSE
        <<B64Char(b[1] \div 4), B64Char((b[1] % 4) * 16 + (b[2] \div 16)),
          B64Char((b[2] % 16) * 4 + (b[3] \div 64)), B64Char(b[3] % 64)>>
        \o B64Encode(Suffix(b, 3))

\* the 6-bit values of the alphabet characters of s that precede the padding;
\* characters outside the alphabet are discarded, as b64decode does without
\* validate=True
RECURSIVE B64Data(_)
B64Data(s) ==
    IF s = <<>> \/ Head(s) = B64Pad THEN <<>>
    ELSE IF B64Value(Head(s)) < 0 THEN B64Data(Tail(s))
    ELSE <<B64Value(Head(s))>> \o B64Data(Tail(s))

B64Pads(s) == Cardinality({i \in 1..Len(s) : s[i] = B64Pad})

RECURSIVE B64Bytes(_)
B64Bytes(d) ==
    IF Len(d) < 2 THEN <<>>
    ELSE IF Len(d) = 2 THEN <<d[1] * 4 + (d[2] \div 16)>>
    ELSE IF Len(d) = 3 THEN
        <<d[1] * 4 + (d[2] \div 16), (d[2] % 16) * 16 + (d[3] \div 4)>>
    ELSE
        <<d[1] * 4 + (d[2] \div 16), (d[2] % 16) * 16 + (d[3] \div 4),
          (d[3] % 4) * 64 + d[4]>>
        \o B64Bytes(Suffix(d, 4))

\* base64.b64decode(s): [ok, b]; ok is FALSE where Python raises
\* binascii.Error (one data character too many, or padding missing)
B64Decode(s) ==
    LET d == B64Data(s)
        r == Len(d) % 4
    IN  IF r = 1 \/ (r > 1 /\ B64Pads(s) < 4 - r)
            THEN [ok |-> FALSE, b |-> <<>>]
        ELSE [ok |-> TRUE, b |-> B64Bytes(d)]


-----------------------------------------------------------------------------
(* String literals of the source, as code points *)

\* "mock_key_"
StrMockKey == <<109, 111, 99, 107, 95, 107, 101, 121, 95>>
\* "mock_iv_"
StrMockIv == <<109, 111, 99, 107, 95, 105, 118, 95>>
\* "mock_salt_"
StrMockSalt == <<109, 111, 99, 107, 95, 115, 97, 108, 116, 95>>
\* "[Test: Decrypted] "
StrTestDecrypted == <<91, 84, 101, 115, 116, 58, 32, 68, 101, 99, 114, 121, 112, 116, 101, 100, 93, 32>>
\* "[Mock: Decrypted] "
StrMockDecrypted == <<91, 77, 111, 99, 107, 58, 32, 68, 101, 99, 114, 121, 112, 116, 101, 100, 93, 32>>
\* "..."
StrDots == <<46, 46, 46>>
\* "[Encrypted]"
StrEncrypted == <<91, 69, 110, 99, 114, 121, 112, 116, 101, 100, 93>>
\* b"message"
AadMessage == <<109, 101, 115, 115, 97, 103, 101>>

-----------------------------------------------------------------------------
(* TestEncryptionService and MockMessageEncryption *)

\* hash(plaintext): a value fixed for the life of the process
RECURSIVE PyHash(_)
PyHash(s) == IF s = <<>> THEN 0 ELSE (PyHash(Tail(s)) * 31 + Head(s)) % 1000003

\* the envelope both in-memory services return: no tag, the empty string
\* short-circuited to empty fields
MockEnvelope(plaintext) ==
    IF plaintext = <<>> THEN
        [ciphertext |-> <<>>, encrypted_data_key |-> <<>>, iv |-> <<>>, salt |-> <<>>]
    ELSE
        [ciphertext         |-> B64Encode(Utf8Encode(plaintext)),
         encrypted_data_key |-> StrMockKey \o IntToStr(Len(plaintext)),
         iv                 |-> StrMockIv \o IntToStr(PyHash(plaintext) % 1000),
         salt               |-> StrMockSalt \o IntToStr(Len(plaintext))]

\* what both in-memory services decrypt to; marker is the prefix of the text
\* returned when the ciphertext is not the base64 of UTF-8 text
MockPlaintext(encrypted_data, marker) ==
    IF "ciphertext" \notin DOMAIN encrypted_data \/ encrypted_data.ciphertext = <<>>
        THEN <<>>
    ELSE LET ciphertext == encrypted_data.ciphertext
             raw == B64Decode(ciphertext)
             txt == IF raw.ok THEN Utf8Decode(raw.b) ELSE [ok |-> FALSE, s |-> <<>>]
         IN  IF txt.ok THEN txt.s
             ELSE marker \o Prefix(ciphertext, 50) \o StrDots

TestEncrypt(plaintext) == [ok |-> TRUE, env |-> MockEnvelope(plaintext)]

\* a decryption that hands back the ciphertext
TestDecryptRaw(encrypted_data) ==
    [ok |-> TRUE, text |-> encrypted_data.ciphertext]

TestDecrypt(encrypted_data) ==
    [ok |-> TRUE, text |-> MockPlaintext(encrypted_data, StrTestDecrypted)]

MockEncrypt(plaintext) == [ok |-> TRUE, env |-> MockEnvelope(plaintext)]

MockDecrypt(encrypted_data) ==
    [ok |-> TRUE, text |-> MockPlaintext(encrypted_data, StrMockDecrypted)]

-----------------------------------------------------------------------------
(* The collaborators of MessageEncryption: os.urandom, Cloud KMS, AES-GCM *)

\* the values os.urandom draws from: Urandom(n, r) is the n-byte string
\* whose bytes are all r
RandomBytes == {7, 200}

Urandom(n, r) == [i \in 1..n |-> r]

\* the master keys; a service's key_name is one of them
KeyNames == {1, 2}

RECURSIVE WeightedSum(_, _)
WeightedSum(b, i) ==
    IF b = <<>> THEN 0 ELSE (i * Head(b) + WeightedSum(Tail(b), i + 1)) % 251

\* KeyManagementServiceClient.encrypt: the blob names the master key
KmsEncrypt(name, plaintext) ==
    <<name>> \o [i \in 1..Len(plaintext) |-> (plaintext[i] + 16 * name + 1) % 256]

\* KeyManagementServiceClient.decrypt: [ok, plaintext]; it refuses a blob
\* wrapped under another master key
KmsDecrypt(name, blob) ==
    IF blob = <<>> \/ blob[1] # name THEN [ok |-> FALSE, plaintext |-> <<>>]
    ELSE [ok |-> TRUE,
          plaintext |-> [i \in 1..(Len(blob) - 1) |->
                            (blob[i + 1] + 256 - ((16 * name + 1) % 256)) % 256]]

\* the CTR key stream of AES-GCM
KeyStream(key, iv, i) == (WeightedSum(key, 1) * 7 + WeightedSum(iv, 1) * 13 + i * 31 + 11) % 256

GcmCiphertext(key, iv, data) ==
    [i \in 1..Len(data) |-> (data[i] + KeyStream(key, iv, i)) % 256]

\* a decryption that leaves the bytes as they are
GcmPlaintextKept(key, iv, ct) == ct

GcmPlaintext(key, iv, ct) ==
    [i \in 1..Len(ct) |-> (ct[i] + 256 - KeyStream(key, iv, i)) % 256]

\* the bytes of ct at positions k, k + 12, k + 24, ... folded into one
RECURSIVE LaneSum(_, _)
LaneSum(ct, k) == IF k > Len(ct) THEN 0 ELSE (ct[k] + 3 * LaneSum(ct, k + 12)) % 256

\* the 16-byte authentication tag over key, iv, associated data and
\* ciphertext; it tells apart any two ciphertexts of at most 12 bytes
GcmTag(key, iv, aad, ct) ==
    [i \in 1..16 |->
        IF i = 1 THEN WeightedSum(key, 1)
        ELSE IF i = 2 THEN WeightedSum(iv, 1)
        ELSE IF i = 3 THEN WeightedSum(aad, 1)
        ELSE IF i = 4 THEN Len(ct) % 256
        ELSE LaneSum(ct, i - 4)]

-----------------------------------------------------------------------------
(* MessageEncryption (encryption.py), which ProductionEncryptionService wraps *)

\* an encrypt_message that returns an envelope without a wrapped key when
\* the key service does not answer
KmsEncryptMessageHalf(key_name, self_salt, message, data_key, iv, kms_up) ==
    LET ciphertext == GcmCiphertext(data_key, iv, Utf8Encode(message))
    IN  [ok |-> TRUE,
         env |-> [encrypted_data_key |-> IF kms_up THEN B64Encode(KmsEncrypt(key_name, data_key))
                                         ELSE <<>>,
                  iv                 |-> B64Encode(iv),
                  ciphertext         |-> B64Encode(ciphertext),
                  tag                |-> B64Encode(GcmTag(data_key, iv, AadMessage, ciphertext)),
                  salt               |-> B64Encode(self_salt)]]

\* encrypt_message(message) of a service with master key key_name and
\* PBKDF2 salt self_salt; data_key and iv are the bytes os.urandom returns,
\* kms_up says whether the key service answers.  [ok, env]
KmsEncryptMessage(key_name, self_salt, message, data_key, iv, kms_up) ==
    IF ~kms_up THEN [ok |-> FALSE, env |-> [ciphertext |-> <<>>]]
    ELSE LET encrypted_data_key == KmsEncrypt(key_name, data_key)
             ciphertext == GcmCiphertext(data_key, iv, Utf8Encode(message))
             tag == GcmTag(data_key, iv, AadMessage, ciphertext)
         IN  [ok |-> TRUE,
              env |-> [encrypted_data_key |-> B64Encode(encrypted_data_key),
                       iv                 |-> B64Encode(iv),
                       ciphertext         |-> B64Encode(ciphertext),
                       tag                |-> B64Encode(tag),
                       salt               |-> B64Encode(self_salt)]]

\* Cipher(algorithms.AES(data_key), modes.GCM(iv, tag)) accepts the lengths
AesGcmAccepts(data_key, iv, tag) ==
    /\ Len(data_key) \in {16, 24, 32}
    /\ Len(iv) \in 8..128
    /\ Len(tag) = 16

Raised == [ok |-> FALSE, text |-> <<>>]

\* decrypt_message gets as far as self.client.decrypt(request=...): the four
\* fields are read and base64-decoded before it, the cipher is built after
KmsDecryptRequested(encrypted_data) ==
    /\ {"encrypted_data_key", "iv", "ciphertext", "tag"} \subseteq DOMAIN encrypted_data
    /\ B64Decode(encrypted_data.encrypted_data_key).ok
    /\ B64Decode(encrypted_data.iv).ok
    /\ B64Decode(encrypted_data.ciphertext).ok
    /\ B64Decode(encrypted_data.tag).ok

\* decrypt_message(encrypted_data) of a service with master key key_name.
\* [ok, text]; ok is FALSE where the method raises: a field is missing, is
\* not base64, the key service fails, the lengths are refused, the tag does
\* not verify, or the plaintext is not UTF-8
KmsDecryptMessage(key_name, encrypted_data, kms_up) ==
    IF ~({"encrypted_data_key", "iv", "ciphertext", "tag"} \subseteq DOMAIN encrypted_data)
        THEN Raised
    ELSE LET encrypted_data_key == B64Decode(encrypted_data.encrypted_data_key)
             iv == B64Decode(encrypted_data.iv)
             ciphertext == B64Decode(encrypted_data.ciphertext)
             tag == B64Decode(encrypted_data.tag)
         IN  IF ~(encrypted_data_key.ok /\ iv.ok /\ ciphertext.ok /\ tag.ok) THEN Raised
             ELSE IF ~kms_up THEN Raised
             ELSE LET data_key == KmsDecrypt(key_name, encrypted_data_key.b) IN
                  IF ~data_key.ok THEN Raised
                  ELSE IF ~AesGcmAccepts(data_key.plaintext, iv.b, tag.b) THEN Raised
                  ELSE IF GcmTag(data_key.plaintext, iv.b, AadMessage, ciphertext.b) # tag.b
                      THEN Raised
                  ELSE LET plaintext ==
                               Utf8Decode(GcmPlaintext(data_key.plaintext, iv.b, ciphertext.b))
                       IN  IF plaintext.ok THEN [ok |-> TRUE, text |-> plaintext.s]
                           ELSE Raised

-----------------------------------------------------------------------------
(* Request parameters: a query-string value is a str, a JSON value an int, *)
(* and either may be absent (None)                                         *)

NoneV == [t |-> "none", n |-> 0, s |-> <<>>]
IntV(x) == [t |-> "int", n |-> x, s |-> <<>>]
StrV(x) == [t |-> "str", n |-> 0, s |-> x]

\* bool(v)
Truthy(v) == (v.t = "int" /\ v.n # 0) \/ (v.t = "str" /\ v.s # <<>>)

\* int(v): [ok, n]; int(None) raises TypeError
ToInt(v) ==
    IF v.t = "int" THEN [ok |-> TRUE, n |-> v.n]
    ELSE IF v.t = "str" THEN PyInt(v.s)
    ELSE [ok |-> FALSE, n |-> 0]

\* docs[:n]
SliceTo(docs, n) ==
    IF n >= 0 THEN Prefix(docs, n)
    ELSE Prefix(docs, IF Len(docs) + n < 0 THEN 0 ELSE Len(docs) + n)

-----------------------------------------------------------------------------
(* The in-memory repositories.  A document is [id, data]; data is a record *)
(* whose DOMAIN is the set of fields the document has.  A query is         *)
(* [filters, limit_value, start_after_doc]; an optional value is a         *)
(* sequence of length 0 (None) or 1.                                       *)

\* the id of the seed document number i: "msg_0", "msg_1"
SeedId(i) == <<109, 115, 103, 95>> \o NatToStr(i)

\* str(uuid.uuid4()), the n-th one handed out: never equal to an earlier one
Uuid(n) == <<117>> \o NatToStr(n)

\* the chat of the seed messages; stands for -100123456789
SeedChatId == -100
SeedUser1 == 123456
SeedUser2 == 789012

\* "dGVzdCBtZXNzYWdlIDEK" and "dGVzdCBtZXNzYWdlIDIK"
SeedCiphertext(i) ==
    IF i = 0 THEN <<100, 71, 86, 122, 100, 67, 66, 116, 90, 88, 78, 122, 89, 87, 100, 108, 73, 68, 69, 75>>
    ELSE <<100, 71, 86, 122, 100, 67, 66, 116, 90, 88, 78, 122, 89, 87, 100, 108, 73, 68, 73, 75>>

\* TestDatabaseClient._seed_test_data
SeedData(i) ==
    [message_id     |-> i + 1,
     chat_id        |-> SeedChatId,
     user_id        |-> IF i = 0 THEN SeedUser1 ELSE SeedUser2,
     encrypted_text |-> [ciphertext         |-> SeedCiphertext(i),
                         encrypted_data_key |-> StrMockKey \o NatToStr(i + 1),
                         iv                 |-> StrMockIv \o NatToStr(i + 1),
                         salt               |-> StrMockSalt \o NatToStr(i + 1)],
     type           |-> "telegram"]

SeedDocs == [i \in 1..2 |-> [id |-> SeedId(i - 1), data |-> SeedData(i - 1)]]

\* TestDatabaseCollection.add / MockCollection.add: the collection after it
CollectionAdd(coll, data) == Append(coll, [id |-> Uuid(Len(coll) + 1), data |-> data])

\* TestDatabaseCollection.document / MockCollection.document: the stored
\* document with that id, or a new empty document carrying the id
CollectionDocument(coll, doc_id) ==
    IF \E i \in 1..Len(coll) : coll[i].id = doc_id
        THEN coll[CHOOSE i \in 1..Len(coll) :
                    /\ coll[i].id = doc_id
                    /\ \A j \in 1..(i - 1) : coll[j].id # doc_id]
    ELSE [id |-> doc_id, data |-> <<>>]

\* TestDatabaseDocument.exists / MockDocument.exists
DocExists(doc) == TRUE

NewQuery == [filters |-> <<>>, limit_value |-> <<>>, start_after_doc |-> <<>>]

QueryWhere(q, filter) == [q EXCEPT !.filters = Append(@, filter)]
QueryLimit(q, count) == [q EXCEPT !.limit_value = <<count>>]
QueryStartAfter(q, doc) == [q EXCEPT !.start_after_doc = <<doc>>]

\* TestFieldFilterFactory.create_filter (the operator is never read)
CreateFilter(field, value) == [field |-> field, value |-> value]

\* TestDatabaseQuery._document_matches_filters, and the loop body of
\* MockQuery.stream
DocumentMatchesFilters(doc, filters) ==
    \A i \in 1..Len(filters) :
        ~(/\ filters[i].field \in DOMAIN doc.data
          /\ doc.data[filters[i].field] # filters[i].value)

ApplyFilters(docs, filters) ==
    SelectSeq(docs, LAMBDA d : DocumentMatchesFilters(d, filters))

\* TestDatabaseQuery._apply_start_after
ApplyStartAfter(docs, start_after_doc) ==
    IF start_after_doc = <<>> THEN docs
    ELSE LET hits == {i \in 1..Len(docs) : docs[i].id = start_after_doc[1].id}
             start_index == IF hits = {} THEN 0
                            ELSE CHOOSE i \in hits : \A j \in hits : i <= j
         IN  Suffix(docs, start_index)

\* if self._limit_value: docs[: self._limit_value]
ApplyLimit(docs, limit_value) ==
    IF limit_value # <<>> /\ limit_value[1] # 0 THEN SliceTo(docs, limit_value[1])
    ELSE docs

\* TestDatabaseQuery.stream
TestStream(coll, q) ==
    ApplyLimit(ApplyStartAfter(ApplyFilters(coll, q.filters), q.start_after_doc),
               q.limit_value)

\* MockQuery.stream: _start_after_doc is stored and never read
MockStream(coll, q) == ApplyLimit(ApplyFilters(coll, q.filters), q.limit_value)

-----------------------------------------------------------------------------
(* The services of a container.  TestServiceContainer builds the in-memory *)
(* database (with its seed) and TestEncryptionService; the production      *)
(* container builds MessageEncryption, and its database, which is outside  *)
(* the source, is the same collection without the seed.                    *)

TestService == [kind |-> "test", key_name |-> 0, salt |-> <<>>]
MockService == [kind |-> "mock", key_name |-> 0, salt |-> <<>>]
KmsService(key_name, r) == [kind |-> "kms", key_name |-> key_name, salt |-> Urandom(16, r)]

\* encryption_service.encrypt_message(text)
EncryptMessage(service, text, data_key, iv, kms_up) ==
    IF service.kind = "test" THEN TestEncrypt(text)
    ELSE IF service.kind = "mock" THEN MockEncrypt(text)
    ELSE KmsEncryptMessage(service.key_name, service.salt, text, data_key, iv, kms_up)

\* encryption_service.decrypt_message(encrypted_data)
DecryptMessage(service, encrypted_data, kms_up) ==
    IF service.kind = "test" THEN TestDecrypt(encrypted_data)
    ELSE IF service.kind = "mock" THEN MockDecrypt(encrypted_data)
    ELSE KmsDecryptMessage(service.key_name, encrypted_data, kms_up)

-----------------------------------------------------------------------------
(* main_simplified.py: the retrieval handlers *)

\* build_query: [ok, is_query, q].  ok is FALSE where int() raises;
\* is_query is FALSE while the result is still the collection itself
BuildQuery(chat_id, user_id) ==
    LET c == ToInt(chat_id)
        u == ToInt(user_id)
        q1 == IF Truthy(chat_id) THEN QueryWhere(NewQuery, CreateFilter("chat_id", c.n))
              ELSE NewQuery
        q2 == IF Truthy(user_id) THEN QueryWhere(q1, CreateFilter("user_id", u.n))
              ELSE q1
    IN  IF (Truthy(chat_id) /\ ~c.ok) \/ (Truthy(user_id) /\ ~u.ok)
            THEN [ok |-> FALSE, is_query |-> FALSE, q |-> NewQuery]
        ELSE [ok |-> TRUE, is_query |-> Truthy(chat_id) \/ Truthy(user_id), q |-> q2]

\* a to_dict that hands out the document's own dict
ToDictShared(doc) == [data |-> doc.data, shared |-> TRUE]

\* TestDatabaseDocument.to_dict / MockDocument.to_dict: a copy of _data.
\* shared says whether the dict handed out is the document's own, that is
\* whether what the caller writes to it reaches the stored document
ToDict(doc) == [data |-> doc.data, shared |-> FALSE]

\* one pass of the loop of process_docs: the entry appended to messages.
\* failed says that decrypt_message (or the read of encrypted_text) raised
MessageEntry(doc, service, kms_up) ==
    LET message_data == doc.data
        dec == IF "encrypted_text" \in DOMAIN message_data
                   THEN DecryptMessage(service, message_data.encrypted_text, kms_up)
               ELSE Raised
        kept == IF dec.ok THEN DOMAIN message_data \ {"encrypted_text"}
                ELSE DOMAIN message_data
    IN  [f \in kept \cup {"id", "text"} |->
            IF f = "text" THEN (IF dec.ok THEN dec.text ELSE StrEncrypted)
            ELSE IF f \in kept THEN message_data[f]
            ELSE doc.id]

\* a loop that drops the records it cannot decrypt
ProcessDocsSkip(docs, service, down) ==
    LET all == [i \in 1..Len(docs) |-> MessageEntry(docs[i], service, i \notin down)]
    IN  SelectSeq(all, LAMBDA m : m.text # StrEncrypted)

\* process_docs: the messages list; down is the set of positions at which
\* the key service does not answer
ProcessDocs(docs, service, down) ==
    [i \in 1..Len(docs) |-> MessageEntry(docs[i], service, i \notin down)]

\* the stored document after one pass of the loop of process_docs, which
\* writes text to, and deletes encrypted_text from, the dict to_dict returned
DocAfterRead(doc, service, kms_up) ==
    IF ToDict(doc).shared
        THEN LET entry == MessageEntry(doc, service, kms_up)
             IN  [id |-> doc.id,
                  data |-> [f \in DOMAIN entry \ {"id"} |-> entry[f]]]
    ELSE doc

\* the collection after process_docs has gone through docs
StoreAfterRead(coll, docs, service, down) ==
    [i \in 1..Len(coll) |->
        IF \E j \in 1..Len(docs) : docs[j].id = coll[i].id
            THEN DocAfterRead(coll[i], service,
                    (CHOOSE j \in 1..Len(docs) : docs[j].id = coll[i].id) \notin down)
        ELSE coll[i]]

\* a token that names the first document of the page
NextPageTokenFirst(docs) == IF docs = <<>> THEN <<>> ELSE <<docs[1].id>>

\* last_doc.id if last_doc else None
NextPageToken(docs) == IF docs = <<>> THEN <<>> ELSE <<docs[Len(docs)].id>>

\* an except clause that answers with an empty page
ErrorResponseEmpty(kind, req) ==
    [kind |-> kind, status |-> 200, body |-> "messages", req |-> req,
     docs |-> <<>>, messages |-> <<>>, next_page_token |-> <<>>]

\* except Exception as e: return jsonify({"error": str(e)}), 500
ErrorResponse(kind, req) ==
    [kind |-> kind, status |-> 500, body |-> "error", req |-> req,
     docs |-> <<>>, messages |-> <<>>, next_page_token |-> <<>>]

\* get_messages
GetMessagesResponse(coll, service, req) ==
    LET limit == IF req.limit = NoneV THEN [ok |-> TRUE, n |-> 100] ELSE ToInt(req.limit)
        built == BuildQuery(req.chat_id, req.user_id)
        start_after_doc == CollectionDocument(coll, req.start_after.s)
        paged == Truthy(req.start_after) /\ DocExists(start_after_doc)
        query == IF paged THEN QueryStartAfter(built.q, start_after_doc) ELSE built.q
        docs == TestStream(coll, QueryLimit(query, limit.n))
    IN  IF ~limit.ok \/ ~built.ok THEN ErrorResponse("messages", req)
        \* the collection has where, limit and stream, and no start_after
        ELSE IF paged /\ ~built.is_query THEN ErrorResponse("messages", req)
        ELSE [kind |-> "messages", status |-> 200, body |-> "messages", req |-> req,
              docs |-> docs, messages |-> ProcessDocs(docs, service, req.down),
              next_page_token |-> NextPageToken(docs)]

\* process_messages_batch
BatchResponse(coll, service, req) ==
    LET batch_size == IF req.limit = NoneV THEN [ok |-> TRUE, n |-> 500]
                      ELSE ToInt(req.limit)
        built == BuildQuery(req.chat_id, req.user_id)
        docs == TestStream(coll, QueryLimit(built.q, batch_size.n))
    IN  IF ~batch_size.ok \/ ~built.ok THEN ErrorResponse("batch", req)
        ELSE [kind |-> "batch", status |-> 200, body |-> "messages", req |-> req,
              docs |-> docs, messages |-> ProcessDocs(docs, service, req.down),
              next_page_token |-> <<>>]

-----------------------------------------------------------------------------
(* main_simplified.py: the webhook, with TestTelegramUpdateParser and the  *)
(* message handler                                                         *)

\* parse_update: an update without a message parses to a message of
\* defaults (chat 0, user 0, message_id 0, text "")
ParseUpdate(update) ==
    IF update.has_message THEN update
    ELSE [has_message |-> FALSE, chat_id |-> 0, user_id |-> 0, message_id |-> 0,
          text |-> <<>>]

\* the document handle_message stores (chat_title, username, first_name and
\* timestamp are carried along and never read)
MessageData(message, encrypted_data) ==
    [message_id     |-> message.message_id,
     chat_id        |-> message.chat_id,
     user_id        |-> message.user_id,
     encrypted_text |-> encrypted_data,
     type           |-> "telegram"]

\* a handler that stores whatever text it is given
HasTextAlways(message) == TRUE

\* if message.text: the handler encrypts and stores
HasText(message) == message.text # <<>>

\* what handle_message returns when it does not raise: return
\* message.message_id; the tuple add() returned is dropped
HandleMessageReturn(message) == IntV(message.message_id)

\* raised names the call whose exception ended the request (it is what
\* logger.exception records): "none", "abort", "encrypt_message" or
\* "send_message"
WebhookResponse(status, update, raised) ==
    [kind |-> "webhook", status |-> status,
     body |-> IF status = 200 THEN "ok" ELSE "error",
     req |-> update, docs |-> <<>>, messages |-> <<>>, next_page_token |-> <<>>,
     raised |-> raised]

-----------------------------------------------------------------------------
(* The inputs the requests are drawn from *)

ChatIds == {0, SeedChatId}
UserIds == {0, SeedUser1}
MessageIds == {2, 3}
\* "", "A", "é€"
Texts == {<<>>, <<65>>, <<233, 8364>>}

NoMessage ==
    [has_message |-> FALSE, chat_id |-> 0, user_id |-> 0, message_id |-> 0, text |-> <<>>]

Updates ==
    {NoMessage} \cup
    [has_message : {TRUE}, chat_id : ChatIds, user_id : UserIds,
     message_id : MessageIds, text : Texts]

\* a token that is the id of no document: "zz"
UnknownToken == <<122, 122>>

ChatArgs == {NoneV} \cup {StrV(IntToStr(c)) : c \in ChatIds}
UserArgs == {NoneV} \cup {StrV(IntToStr(u)) : u \in UserIds}
LimitArgs == {NoneV} \cup {StrV(IntToStr(n)) : n \in 0..2}
TokenArgs(coll) ==
    {NoneV, StrV(UnknownToken)} \cup {StrV(coll[i].id) : i \in 1..Len(coll)}

ChatJson == {NoneV} \cup {IntV(c) : c \in ChatIds}
UserJson == {NoneV} \cup {IntV(u) : u \in UserIds}
LimitJson == {NoneV} \cup {IntV(n) : n \in 0..2}

Request(chat_id, user_id, limit, start_after, down) ==
    [chat_id |-> chat_id, user_id |-> user_id, limit |-> limit,
     start_after |-> start_after, down |-> down]

NoResponse ==
    [kind |-> "none", status |-> 0, body |-> "none", req |-> NoneV,
     docs |-> <<>>, messages |-> <<>>, next_page_token |-> <<>>]

NoSession == [phase |-> "idle"]
NoLab == [phase |-> "idle"]
NoRepo == [phase |-> "idle"]

\* most callers that use one client at the same time
MaxCallers == 3
Callers == 1..MaxCallers

\* no collection besides "messages", no list for it, every caller idle.
\* colls is the list the client keeps under the name (0: the name is not in
\* _collections), lists the list objects in the order of their creation
NoCallers ==
    [colls |-> 0, lists |-> <<>>,
     th |-> [c \in Callers |-> [pc |-> "idle", op |-> "none", ref |-> 0,
                                doc |-> <<>>, out |-> <<>>]]]

\* most applications created, and most messages posted to their webhooks
MaxApps == 2
MaxPosts == 3

\* no application yet: _service_container is None (global 0); containers
\* are the service containers in the order of their creation, posts the
\* history of the messages stored, last the last answer of GET /messages
NoApps ==
    [global |-> 0, containers |-> <<>>, posts |-> <<>>,
     last |-> [app |-> 0, message_ids |-> <<>>]]

-----------------------------------------------------------------------------
(* The application *)

\* create_app("test"): TestServiceContainer
Init ==
    /\ svc = TestService
    /\ store = SeedDocs
    /\ sent = <<>>
    /\ ingested = <<>>
    /\ delivered = 0
    /\ resp = NoResponse
    /\ pg = NoSession
    /\ lab = NoLab
    /\ repo = NoRepo
    /\ conc = NoCallers
    /\ apps = NoApps

\* POST /webhook/<secret>: webhook, parse_update, handle_message.
\* data_key and iv are what os.urandom returns, kms_up and bot_up say
\* whether the key service and the Telegram API answer
Webhook(secret_ok, update, data_key, iv, kms_up, bot_up) ==
    LET message == ParseUpdate(update)
        enc == EncryptMessage(svc, message.text, Urandom(32, data_key), Urandom(12, iv), kms_up)
    IN
    /\ delivered < MaxUpdates
    /\ delivered' = delivered + 1
    /\ IF ~secret_ok THEN
            \* abort(500)
            /\ resp' = WebhookResponse(500, update, "abort")
            /\ UNCHANGED <<store, sent, ingested>>
       ELSE IF svc.kind = "kms" /\ ~update.has_message THEN
            \* Update.de_json gives update.message = None
            /\ resp' = WebhookResponse(200, update, "none")
            /\ UNCHANGED <<store, sent, ingested>>
       ELSE IF HasText(message) /\ ~enc.ok THEN
            \* encrypt_message raised
            /\ resp' = WebhookResponse(500, update, "encrypt_message")
            /\ UNCHANGED <<store, sent, ingested>>
       ELSE
            /\ IF HasText(message)
                 THEN /\ store' = CollectionAdd(store, MessageData(message, enc.env))
                      /\ ingested' = Append(ingested,
                            [id |-> Uuid(Len(store) + 1), chat_id |-> message.chat_id,
                             user_id |-> message.user_id, text |-> message.text])
                 ELSE UNCHANGED <<store, ingested>>
            /\ IF bot_up
                 THEN /\ sent' = Append(sent, [chat_id |-> message.chat_id,
                                               message_id |-> message.message_id])
                      /\ resp' = WebhookResponse(200, update, "none")
                 ELSE /\ sent' = sent
                      /\ resp' = WebhookResponse(500, update, "send_message")
    /\ UNCHANGED <<svc, pg, lab, repo, conc, apps>>

\* A retrieval changes nothing but resp, and its answer does not depend on
\* resp: a retrieval that follows another one reaches no state that a
\* retrieval following a webhook does not reach.  The handlers are therefore
\* explored from the states in which no retrieval has answered yet.
Fresh == resp.kind \in {"none", "webhook"}

\* GET /messages
GetMessages(req) ==
    /\ Fresh
    /\ resp' = GetMessagesResponse(store, svc, req)
    /\ store' = StoreAfterRead(store, resp'.docs, svc, req.down)
    /\ UNCHANGED <<svc, sent, ingested, delivered, pg, lab, repo, conc, apps>>

\* POST /messages/batch
ProcessMessagesBatch(req) ==
    /\ Fresh
    /\ resp' = BatchResponse(store, svc, req)
    /\ store' = StoreAfterRead(store, resp'.docs, svc, req.down)
    /\ UNCHANGED <<svc, sent, ingested, delivered, pg, lab, repo, conc, apps>>

Next ==
    \/ \E secret_ok \in BOOLEAN, update \in Updates :
            Webhook(secret_ok, update, 0, 0, TRUE, TRUE)
    \/ \E chat_id \in ChatArgs, user_id \in UserArgs, limit \in LimitArgs,
          start_after \in TokenArgs(store) :
            GetMessages(Request(chat_id, user_id, limit, start_after, {}))
    \/ \E chat_id \in ChatJson, user_id \in UserJson, limit \in LimitJson :
            ProcessMessagesBatch(Request(chat_id, user_id, limit, NoneV, {}))

Spec == Init /\ [][Next]_vars

-----------------------------------------------------------------------------
(* The retrieval handlers on requests whose parameters int() refuses *)

\* "x"
NotANumber == <<120>>

BadChatArgs == {NoneV, StrV(NotANumber), StrV(IntToStr(SeedChatId))}
BadLimitArgs == {NoneV, StrV(NotANumber), StrV(<<>>), StrV(IntToStr(1))}
BadChatJson == {NoneV, StrV(NotANumber), IntV(SeedChatId)}
BadLimitJson == {NoneV, StrV(NotANumber), IntV(1)}

ErrorNext ==
    \/ \E text \in Texts :
            Webhook(TRUE, [has_message |-> TRUE, chat_id |-> SeedChatId,
                           user_id |-> SeedUser1, message_id |-> 2, text |-> text],
                    0, 0, TRUE, TRUE)
    \/ \E chat_id \in BadChatArgs, limit \in BadLimitArgs,
          start_after \in TokenArgs(store) :
            GetMessages(Request(chat_id, NoneV, limit, start_after, {}))
    \/ \E chat_id \in BadChatJson, user_id \in BadChatJson, limit \in BadLimitJson :
            ProcessMessagesBatch(Request(chat_id, user_id, limit, NoneV, {}))

ErrorSpec == Init /\ [][ErrorNext]_vars

-----------------------------------------------------------------------------
(* The production container: MessageEncryption over Cloud KMS.  Its        *)
(* database is durable, so the collection may hold a message ingested by   *)
(* an earlier process.                                                     *)

ProdUpdates ==
    {NoMessage} \cup
    [has_message : {TRUE}, chat_id : {SeedChatId}, user_id : {SeedUser1},
     message_id : {2}, text : Texts]

\* what the collection may hold when the process starts: nothing, or one
\* message stored by a deployment that used master key k
Persisted ==
    {<<>>} \cup
    {CollectionAdd(<<>>, MessageData(u,
        KmsEncryptMessage(k, Urandom(16, 7), u.text, Urandom(32, 7), Urandom(12, 200), TRUE).env))
     : u \in {v \in ProdUpdates : v.text = <<233, 8364>>}, k \in KeyNames}

\* the tokens of stored documents (document(id).exists is answered by the
\* database, which is outside the source, for any other id)
StoredTokens(coll) == {NoneV} \cup {StrV(coll[i].id) : i \in 1..Len(coll)}

ProdInit ==
    /\ svc = KmsService(1, 7)
    /\ store \in Persisted
    /\ sent = <<>>
    /\ ingested = <<>>
    /\ delivered = 0
    /\ resp = NoResponse
    /\ pg = NoSession
    /\ lab = NoLab
    /\ repo = NoRepo
    /\ conc = NoCallers
    /\ apps = NoApps

ProdNext ==
    \/ \E secret_ok \in BOOLEAN, update \in ProdUpdates, data_key \in RandomBytes,
          kms_up \in BOOLEAN, bot_up \in BOOLEAN :
            \E iv \in RandomBytes \ {data_key} :
                Webhook(secret_ok, update, data_key, iv, kms_up, bot_up)
    \/ \E chat_id \in ChatArgs, limit \in {NoneV, StrV(<<49>>)},
          start_after \in StoredTokens(store), down \in SUBSET (1..Len(store)) :
            GetMessages(Request(chat_id, NoneV, limit, start_after, down))
    \/ \E chat_id \in ChatJson, limit \in {NoneV, IntV(1)},
          down \in SUBSET (1..Len(store)) :
            ProcessMessagesBatch(Request(chat_id, NoneV, limit, NoneV, down))

ProdSpec == ProdInit /\ [][ProdNext]_vars

-----------------------------------------------------------------------------
(* A client that walks the pages of GET /messages: it calls without a      *)
(* token, then passes back the next_page_token of each answer              *)

PageLimits == {NoneV} \cup {StrV(IntToStr(n)) : n \in 1..3}

\* the session after the answer r to one more call
Turn(session, r) ==
    IF r.status # 200 THEN [session EXCEPT !.phase = "failed", !.calls = @ + 1]
    ELSE [session EXCEPT
            !.phase = IF r.next_page_token = <<>> THEN "done" ELSE "open",
            !.calls = @ + 1,
            !.token = r.next_page_token,
            !.seen = @ \o [i \in 1..Len(r.messages) |-> r.messages[i].id],
            !.last = Len(r.messages)]

PageStart(chat_id, user_id, limit) ==
    /\ pg.phase = "idle"
    /\ LET r == GetMessagesResponse(store, svc,
                                     Request(chat_id, user_id, limit, NoneV, {}))
       IN  /\ pg' = Turn([phase |-> "open", chat_id |-> chat_id, user_id |-> user_id,
                          limit |-> limit, calls |-> 0, token |-> <<>>, seen |-> <<>>,
                          last |-> 0, snap |-> store], r)
           /\ store' = StoreAfterRead(store, r.docs, svc, {})
    /\ UNCHANGED <<svc, sent, ingested, delivered, resp, lab, repo, conc, apps>>

PageNext ==
    /\ pg.phase = "open"
    /\ LET r == GetMessagesResponse(store, svc,
                    Request(pg.chat_id, pg.user_id, pg.limit, StrV(pg.token[1]), {}))
       IN  /\ pg' = Turn(pg, r)
           /\ store' = StoreAfterRead(store, r.docs, svc, {})
    /\ UNCHANGED <<svc, sent, ingested, delivered, resp, lab, repo, conc, apps>>

PagingNext ==
    \/ \E update \in Updates : Webhook(TRUE, update, 0, 0, TRUE, TRUE)
    \/ \E chat_id \in ChatArgs, user_id \in UserArgs, limit \in PageLimits :
            PageStart(chat_id, user_id, limit)
    \/ PageNext

PagingSpec == Init /\ [][PagingNext]_vars

-----------------------------------------------------------------------------
(* The repository on its own: add and stream on the messages collection of *)
(* a TestDatabaseClient and of a MockFirestoreClient, which hold the same  *)
(* documents                                                               *)

\* most documents added to the seed
MaxAdds == 1

FieldValues == {0, SeedChatId, SeedUser1}

\* the dicts add() is called with: each of chat_id, user_id present or not
RepoData == UNION {[F -> FieldValues] : F \in SUBSET {"chat_id", "user_id"}}

RepoFilters ==
    {<<>>} \cup
    {<<CreateFilter(f, v)>> : f \in {"chat_id", "user_id"}, v \in FieldValues} \cup
    {<<CreateFilter("chat_id", v), CreateFilter("user_id", w)>> :
        v \in FieldValues, w \in FieldValues}

\* the documents start_after() is called with: None, a stored document, or
\* the empty document that document() returns for an unknown id
RepoCursors(coll) ==
    {<<>>, <<CollectionDocument(coll, UnknownToken)>>} \cup
    {<<coll[i]>> : i \in 1..Len(coll)}

RepoLimits == {<<>>} \cup {<<n>> : n \in 0..3}

\* add() appends to the list of the collection; a caller that holds that
\* very list (the result of collection.stream()) sees the new document
RepoAdd(data) ==
    /\ Len(store) < Len(SeedDocs) + MaxAdds
    /\ store' = CollectionAdd(store, data)
    /\ repo' = IF repo.phase = "listed"
                   THEN [repo EXCEPT !.test = store', !.mock = store']
               ELSE repo
    /\ UNCHANGED <<svc, sent, ingested, delivered, resp, pg, lab, conc, apps>>

\* stream() of the query built by where(...), start_after(...), limit(...),
\* in TestDatabaseQuery and in MockQuery
RepoStream(filters, cursor, limit) ==
    LET q == [filters |-> filters, limit_value |-> limit, start_after_doc |-> cursor]
    IN  /\ repo.phase = "idle"
        /\ repo' = [phase |-> "streamed", q |-> q, coll |-> store,
                    test |-> TestStream(store, q), mock |-> MockStream(store, q)]
        /\ UNCHANGED <<svc, store, sent, ingested, delivered, resp, pg, lab, conc, apps>>

\* TestDatabaseCollection.stream / MockCollection.stream: the list the
\* client keeps for the collection, not a copy of it
RepoStreamCollection ==
    /\ repo.phase = "idle"
    /\ repo' = [phase |-> "listed", q |-> NewQuery, coll |-> store,
                test |-> store, mock |-> store]
    /\ UNCHANGED <<svc, store, sent, ingested, delivered, resp, pg, lab, conc, apps>>

\* collection.document(doc_id) and the exists of what it returns
RepoLookup(doc_id) ==
    /\ repo.phase = "idle"
    /\ repo' = [phase |-> "looked", doc_id |-> doc_id, coll |-> store,
                doc |-> CollectionDocument(store, doc_id),
                exists |-> DocExists(CollectionDocument(store, doc_id))]
    /\ UNCHANGED <<svc, store, sent, ingested, delivered, resp, pg, lab, conc, apps>>

RepoNext ==
    \/ \E data \in RepoData : RepoAdd(data)
    \/ \E filters \in RepoFilters, cursor \in RepoCursors(store), limit \in RepoLimits :
            RepoStream(filters, cursor, limit)
    \/ RepoStreamCollection
    \/ \E doc_id \in {UnknownToken} \cup {store[i].id : i \in 1..Len(store)} :
            RepoLookup(doc_id)

RepoSpec == Init /\ [][RepoNext]_vars

-----------------------------------------------------------------------------
(* An encryption service on its own: encrypt_message, then decrypt_message *)
(* of the envelope it returned                                             *)

Services == {TestService, MockService} \cup {KmsService(k, 7) : k \in KeyNames}

LabEncrypt(service, plaintext, data_key, iv, kms_up) ==
    /\ lab.phase = "idle"
    /\ lab' = [phase |-> "encrypted", service |-> service, plaintext |-> plaintext,
               enc |-> EncryptMessage(service, plaintext, Urandom(32, data_key),
                                      Urandom(12, iv), kms_up),
               draw |-> <<data_key, iv>>, tampered |-> FALSE]
    /\ UNCHANGED <<svc, store, sent, ingested, delivered, resp, pg, repo, conc, apps>>

LabDecrypt(service, kms_up) ==
    /\ lab.phase = "encrypted"
    /\ lab.enc.ok
    /\ lab' = [phase |-> "decrypted", service |-> lab.service,
               plaintext |-> lab.plaintext, enc |-> lab.enc,
               draw |-> lab.draw, tampered |-> lab.tampered,
               by |-> service, kms_up |-> kms_up,
               dec |-> DecryptMessage(service, lab.enc.env, kms_up)]
    /\ UNCHANGED <<svc, store, sent, ingested, delivered, resp, pg, repo, conc, apps>>

LabNext ==
    \/ \E service \in Services, plaintext \in Plaintexts,
          data_key \in RandomBytes, iv \in RandomBytes, kms_up \in BOOLEAN :
            LabEncrypt(service, plaintext, data_key, iv, kms_up)
    \/ \E service \in Services, kms_up \in BOOLEAN : LabDecrypt(service, kms_up)

LabSpec == Init /\ [][LabNext]_vars

-----------------------------------------------------------------------------
(* Envelopes in hostile or repeated use: an envelope modified between      *)
(* encrypt_message and decrypt_message, an envelope handed to a service    *)
(* configured with another key, and a plaintext encrypted twice            *)

\* TestEncryptionService(key_id = k)
TestServiceFor(k) == [kind |-> "test", key_name |-> k, salt |-> <<>>]

EnvelopeServices ==
    {TestServiceFor(k) : k \in KeyNames} \cup {MockService}
        \cup {KmsService(k, 7) : k \in KeyNames}

\* the byte b with bit k inverted
FlipBit(b, k) == IF (b \div (2 ^ k)) % 2 = 1 THEN b - 2 ^ k ELSE b + 2 ^ k

\* the bits inverted: the lowest and the highest of a byte
TamperBits == {0, 7}

\* the base64 field s with bit k of its byte i inverted
TamperedField(s, i, k) ==
    LET raw == B64Decode(s).b
    IN  B64Encode([raw EXCEPT ![i] = FlipBit(@, k)])

\* one bit of the ciphertext or of the tag is changed on the way
LabTamper(field, i, k) ==
    /\ lab.phase = "encrypted"
    /\ lab.enc.ok
    /\ ~lab.tampered
    /\ field \in DOMAIN lab.enc.env
    /\ i \in 1..Len(B64Decode(lab.enc.env[field]).b)
    /\ lab' = [lab EXCEPT !.tampered = TRUE,
                          !.enc.env[field] = TamperedField(@, i, k)]
    /\ UNCHANGED <<svc, store, sent, ingested, delivered, resp, pg, repo, conc, apps>>

\* the same service encrypts the same plaintext once more; os.urandom
\* returns bytes it has not returned before
LabEncryptAgain(data_key, iv, kms_up) ==
    /\ lab.phase = "encrypted"
    /\ lab.enc.ok
    /\ ~lab.tampered
    /\ data_key # lab.draw[1]
    /\ iv # lab.draw[2]
    /\ lab' = [phase |-> "twice", service |-> lab.service, plaintext |-> lab.plaintext,
               enc |-> lab.enc, draw |-> lab.draw, tampered |-> FALSE,
               again |-> EncryptMessage(lab.service, lab.plaintext,
                                        Urandom(32, data_key), Urandom(12, iv), kms_up)]
    /\ UNCHANGED <<svc, store, sent, ingested, delivered, resp, pg, repo, conc, apps>>

EnvelopeNext ==
    \/ \E service \in EnvelopeServices, plaintext \in Plaintexts, data_key \in RandomBytes :
            \E iv \in RandomBytes \ {data_key} :
                LabEncrypt(service, plaintext, data_key, iv, TRUE)
    \/ \E field \in {"ciphertext", "tag"}, i \in 1..16, k \in TamperBits :
            LabTamper(field, i, k)
    \/ \E data_key \in RandomBytes, iv \in RandomBytes : LabEncryptAgain(data_key, iv, TRUE)
    \/ \E service \in EnvelopeServices :
            /\ lab.phase = "encrypted"
            /\ service.kind = lab.service.kind
            /\ LabDecrypt(service, TRUE)

EnvelopeSpec == Init /\ [][EnvelopeNext]_vars

-----------------------------------------------------------------------------
(* Envelopes of the wrong shape handed to MessageEncryption.decrypt_message *)

\* the lengths, in bytes, a malformed iv or tag is given
BadLengths == {0, 8, 11, 13, 15, 17}

KmsServices == {KmsService(k, 7) : k \in KeyNames}

\* the envelope reaches decrypt_message with its field of another length
LabResize(field, n) ==
    /\ lab.phase = "encrypted"
    /\ lab.enc.ok
    /\ ~lab.tampered
    /\ lab' = [lab EXCEPT !.tampered = TRUE,
                          !.enc.env[field] = B64Encode(Urandom(n, 7))]
    /\ UNCHANGED <<svc, store, sent, ingested, delivered, resp, pg, repo, conc, apps>>

\* the envelope reaches decrypt_message without its field
LabDrop(field) ==
    /\ lab.phase = "encrypted"
    /\ lab.enc.ok
    /\ ~lab.tampered
    /\ lab' = [lab EXCEPT !.tampered = TRUE,
                          !.enc.env = [f \in DOMAIN lab.enc.env \ {field} |-> lab.enc.env[f]]]
    /\ UNCHANGED <<svc, store, sent, ingested, delivered, resp, pg, repo, conc, apps>>

FormatNext ==
    \/ \E service \in KmsServices, plaintext \in Plaintexts, data_key \in RandomBytes :
            \E iv \in RandomBytes \ {data_key} :
                LabEncrypt(service, plaintext, data_key, iv, TRUE)
    \/ \E field \in {"iv", "tag"}, n \in BadLengths : LabResize(field, n)
    \/ \E field \in {"iv", "tag", "ciphertext", "encrypted_data_key"} : LabDrop(field)
    \/ \E kms_up \in BOOLEAN :
            /\ lab.phase = "encrypted"
            /\ LabDecrypt(lab.service, kms_up)

FormatSpec == Init /\ [][FormatNext]_vars

-----------------------------------------------------------------------------
(* Several applications in one process.  The view functions are module     *)
(* functions that reach their services through get_services(), which       *)
(* returns the module global _service_container.                           *)

\* TestServiceContainer.__init__: self._db_client = None
NewContainer == [db |-> <<>>]

\* get_database_client().collection("messages") of container c: the client
\* is built, with its seed messages, at the first call
ContainerMessages(c) == IF c.db = <<>> THEN SeedDocs ELSE c.db[1]

\* create_app("test"): _service_container = initialize_service_container(...)
CreateApp ==
    /\ Len(apps.containers) < MaxApps
    /\ apps' = [apps EXCEPT !.containers = Append(@, NewContainer),
                            !.global = Len(apps.containers) + 1]
    /\ UNCHANGED <<svc, store, sent, ingested, delivered, resp, pg, lab, repo, conc>>

\* POST /webhook/<secret> sent to application a, with a message of text "A"
AppWebhook(a) ==
    LET message == [has_message |-> TRUE, chat_id |-> SeedChatId, user_id |-> SeedUser1,
                    message_id |-> Len(apps.posts) + 3, text |-> <<65>>]
        g == apps.global
        coll == ContainerMessages(apps.containers[g])
    IN
    /\ a \in 1..Len(apps.containers)
    /\ Len(apps.posts) < MaxPosts
    /\ apps' = [apps EXCEPT
            !.containers[g].db =
                <<CollectionAdd(coll, MessageData(message, TestEncrypt(message.text).env))>>,
            !.posts = Append(@, [app |-> a, message_id |-> message.message_id])]
    /\ UNCHANGED <<svc, store, sent, ingested, delivered, resp, pg, lab, repo, conc>>

\* GET /messages sent to application a
AppGetMessages(a) ==
    LET g == apps.global
        coll == ContainerMessages(apps.containers[g])
        r == GetMessagesResponse(coll, TestService, Request(NoneV, NoneV, NoneV, NoneV, {}))
    IN
    /\ a \in 1..Len(apps.containers)
    /\ apps' = [apps EXCEPT
            !.containers[g].db = <<coll>>,
            !.last = [app |-> a,
                      message_ids |-> [i \in 1..Len(r.messages) |-> r.messages[i].message_id]]]
    /\ UNCHANGED <<svc, store, sent, ingested, delivered, resp, pg, lab, repo, conc>>

AppsNext ==
    \/ CreateApp
    \/ \E a \in 1..MaxApps : AppWebhook(a)
    \/ \E a \in 1..MaxApps : AppGetMessages(a)

AppsSpec == Init /\ [][AppsNext]_vars

-----------------------------------------------------------------------------
(* One TestServiceContainer whose getters are called by several request    *)
(* threads.  No getter takes a lock, so the threads interleave between the *)
(* test of the field, the construction and the return.                     *)

\* a new container: _db_client and _message_handler are None (0).  clients
\* counts the TestDatabaseClient objects built, handlers the handlers;
\* _message_handler, once set, is the client the handler was built with.
\* got is the client a finished call works on
NoGetters ==
    [db_client |-> 0, clients |-> 0, message_handler |-> 0, handlers |-> 0,
     th |-> [c \in Callers |-> [pc |-> "idle", op |-> "none", got |-> 0]]]

GettersInit ==
    /\ svc = TestService
    /\ store = SeedDocs
    /\ sent = <<>>
    /\ ingested = <<>>
    /\ delivered = 0
    /\ resp = NoResponse
    /\ pg = NoSession
    /\ lab = NoLab
    /\ repo = NoRepo
    /\ conc = NoCallers
    /\ apps = NoGetters

\* get_messages: db_client = services.get_database_client()
CallGetDatabaseClient(c) ==
    /\ apps.th[c].pc = "idle"
    /\ apps' = [apps EXCEPT !.th[c].pc = "db_check", !.th[c].op = "retrieval"]
    /\ UNCHANGED <<svc, store, sent, ingested, delivered, resp, pg, lab, repo, conc>>

\* if self._db_client is None
DbCheck(c) ==
    /\ apps.th[c].pc = "db_check"
    /\ apps' = [apps EXCEPT !.th[c].pc = IF apps.db_client = 0 THEN "db_create"
                                         ELSE "db_return"]
    /\ UNCHANGED <<svc, store, sent, ingested, delivered, resp, pg, lab, repo, conc>>

\* self._db_client = TestDatabaseClient()
DbCreate(c) ==
    /\ apps.th[c].pc = "db_create"
    /\ apps' = [apps EXCEPT !.clients = @ + 1, !.db_client = apps.clients + 1,
                            !.th[c].pc = "db_return"]
    /\ UNCHANGED <<svc, store, sent, ingested, delivered, resp, pg, lab, repo, conc>>

\* return self._db_client, to the view function or to get_message_handler
DbReturn(c) ==
    /\ apps.th[c].pc = "db_return"
    /\ apps' = [apps EXCEPT !.th[c].got = apps.db_client,
                            !.th[c].pc = IF apps.th[c].op = "webhook" THEN "mh_create"
                                         ELSE "done"]
    /\ UNCHANGED <<svc, store, sent, ingested, delivered, resp, pg, lab, repo, conc>>

\* webhook: message_handler = services.get_message_handler()
CallGetMessageHandler(c) ==
    /\ apps.th[c].pc = "idle"
    /\ apps' = [apps EXCEPT !.th[c].pc = "mh_check", !.th[c].op = "webhook"]
    /\ UNCHANGED <<svc, store, sent, ingested, delivered, resp, pg, lab, repo, conc>>

\* if self._message_handler is None: ... db_client=self.get_database_client()
MhCheck(c) ==
    /\ apps.th[c].pc = "mh_check"
    /\ apps' = [apps EXCEPT !.th[c].pc = IF apps.message_handler = 0 THEN "db_check"
                                         ELSE "mh_return"]
    /\ UNCHANGED <<svc, store, sent, ingested, delivered, resp, pg, lab, repo, conc>>

\* self._message_handler = TestMessageHandler(db_client=..., ...)
MhCreate(c) ==
    /\ apps.th[c].pc = "mh_create"
    /\ apps' = [apps EXCEPT !.handlers = @ + 1, !.message_handler = apps.th[c].got,
                            !.th[c].pc = "mh_return"]
    /\ UNCHANGED <<svc, store, sent, ingested, delivered, resp, pg, lab, repo, conc>>

\* return self._message_handler; handle_message works on handler.db_client
MhReturn(c) ==
    /\ apps.th[c].pc = "mh_return"
    /\ apps' = [apps EXCEPT !.th[c].got = apps.message_handler, !.th[c].pc = "done"]
    /\ UNCHANGED <<svc, store, sent, ingested, delivered, resp, pg, lab, repo, conc>>

GettersNext ==
    \E c \in Callers :
        \/ CallGetDatabaseClient(c)
        \/ DbCheck(c)
        \/ DbCreate(c)
        \/ DbReturn(c)
        \/ CallGetMessageHandler(c)
        \/ MhCheck(c)
        \/ MhCreate(c)
        \/ MhReturn(c)

GettersSpec == GettersInit /\ [][GettersNext]_vars

-----------------------------------------------------------------------------
(* Several callers on one client and one collection name that is not in    *)
(* _collections at first.  Nothing in add() or stream() is locked, so the  *)
(* callers interleave between the statements of the two methods.           *)

\* the document caller c adds; uuid4 gives each its own id ("c1", "c2", ...)
CallerDoc(c) == [id |-> <<99>> \o NatToStr(c), data |-> [chat_id |-> 0]]

\* caller c enters add(data): doc = TestDatabaseDocument(doc_id, data)
CallAdd(c) ==
    /\ conc.th[c].pc = "idle"
    /\ conc' = [conc EXCEPT !.th[c].pc = "check", !.th[c].op = "add",
                            !.th[c].doc = CallerDoc(c)]
    /\ UNCHANGED <<svc, store, sent, ingested, delivered, resp, pg, lab, repo, apps>>

\* if self.collection_name not in self.test_client._collections
AddCheck(c) ==
    /\ conc.th[c].pc = "check"
    /\ conc' = [conc EXCEPT !.th[c].pc = IF conc.colls = 0 THEN "create" ELSE "load"]
    /\ UNCHANGED <<svc, store, sent, ingested, delivered, resp, pg, lab, repo, apps>>

\* self.test_client._collections[self.collection_name] = []
AddCreate(c) ==
    /\ conc.th[c].pc = "create"
    /\ conc' = [conc EXCEPT !.lists = Append(@, <<>>),
                            !.colls = Len(conc.lists) + 1,
                            !.th[c].pc = "load"]
    /\ UNCHANGED <<svc, store, sent, ingested, delivered, resp, pg, lab, repo, apps>>

\* self.test_client._collections[self.collection_name]: the list is loaded
AddLoad(c) ==
    /\ conc.th[c].pc = "load"
    /\ conc' = [conc EXCEPT !.th[c].ref = conc.colls, !.th[c].pc = "append"]
    /\ UNCHANGED <<svc, store, sent, ingested, delivered, resp, pg, lab, repo, apps>>

\* .append(doc), and add() returns
AddAppend(c) ==
    /\ conc.th[c].pc = "append"
    /\ conc' = [conc EXCEPT !.lists[conc.th[c].ref] = Append(@, conc.th[c].doc),
                            !.th[c].pc = "done"]
    /\ UNCHANGED <<svc, store, sent, ingested, delivered, resp, pg, lab, repo, apps>>

\* caller c enters stream() of a query without filters
CallStream(c) ==
    /\ conc.th[c].pc = "idle"
    /\ conc' = [conc EXCEPT !.th[c].pc = "get", !.th[c].op = "stream"]
    /\ UNCHANGED <<svc, store, sent, ingested, delivered, resp, pg, lab, repo, apps>>

\* all_docs = self.test_client._collections.get(self.collection_name, [])
StreamGet(c) ==
    /\ conc.th[c].pc = "get"
    /\ conc' = [conc EXCEPT !.th[c].ref = conc.colls, !.th[c].pc = "read"]
    /\ UNCHANGED <<svc, store, sent, ingested, delivered, resp, pg, lab, repo, apps>>

\* the loop of _apply_filters copies the documents of all_docs, and
\* stream() returns
StreamRead(c) ==
    /\ conc.th[c].pc = "read"
    /\ conc' = [conc EXCEPT !.th[c].out = IF conc.th[c].ref = 0 THEN <<>>
                                          ELSE conc.lists[conc.th[c].ref],
                            !.th[c].pc = "done"]
    /\ UNCHANGED <<svc, store, sent, ingested, delivered, resp, pg, lab, repo, apps>>

CallersNext ==
    \E c \in Callers :
        \/ CallAdd(c)
        \/ AddCheck(c)
        \/ AddCreate(c)
        \/ AddLoad(c)
        \/ AddAppend(c)
        \/ CallStream(c)
        \/ StreamGet(c)
        \/ StreamRead(c)

CallersSpec == Init /\ [][CallersNext]_vars

-----------------------------------------------------------------------------
(* The properties *)

\* C1: decrypt_message(encrypt_message(s)) returns exactly s, for every
\* plaintext s (the empty and the non-ASCII ones included), for
\* MessageEncryption, TestEncryptionService and MockMessageEncryption
RoundTrip ==
    (lab.phase = "decrypted" /\ lab.by = lab.service /\ lab.kms_up)
        => lab.dec = [ok |-> TRUE, text |-> lab.plaintext]

RoundTripSeen ==
    /\ lab.phase = "decrypted"
    /\ lab.by = lab.service
    /\ lab.service.kind = "kms"
    /\ lab.kms_up
    /\ lab.plaintext = <<233, 8364>>
    /\ lab.dec.ok

\* the limit a GET /messages request asks for
AskedLimit(req) == IF req.limit = NoneV THEN 100 ELSE ToInt(req.limit).n

\* C2: after the webhook has ingested a message with non-empty text t in
\* chat C, GET /messages with chat_id=C and a limit that covers the matching
\* records returns a record of that message with text t and without
\* encrypted_text; with a chat_id no stored record has it returns no record
ReadYourWrites ==
    (/\ resp.kind = "messages"
     /\ resp.status = 200
     /\ resp.req.chat_id # NoneV
     /\ resp.req.user_id = NoneV
     /\ resp.req.start_after = NoneV)
        => LET c == ToInt(resp.req.chat_id).n
               matches == Cardinality({i \in 1..Len(store) : store[i].data.chat_id = c})
           IN  /\ AskedLimit(resp.req) >= matches =>
                    \A k \in 1..Len(ingested) :
                        ingested[k].chat_id = c =>
                            \E m \in 1..Len(resp.messages) :
                                /\ resp.messages[m].id = ingested[k].id
                                /\ resp.messages[m].text = ingested[k].text
                                /\ "encrypted_text" \notin DOMAIN resp.messages[m]
               /\ matches = 0 => resp.messages = <<>>

ReadYourWritesSeen ==
    /\ resp.kind = "messages"
    /\ resp.status = 200
    /\ resp.req.chat_id = StrV(IntToStr(SeedChatId))
    /\ resp.req.user_id = NoneV
    /\ resp.req.start_after = NoneV
    /\ Len(resp.messages) = 3
    /\ Len(ingested) = 1
    /\ resp.messages[3].id = ingested[1].id
    /\ resp.messages[3].text = <<233, 8364>>

\* the records a retrieval with these chat_id/user_id arguments is to
\* return: the ids, in insertion order
Wanted(data, chat_id, user_id) ==
    /\ chat_id # NoneV =>
            "chat_id" \in DOMAIN data /\ data.chat_id = ToInt(chat_id).n
    /\ user_id # NoneV =>
            "user_id" \in DOMAIN data /\ data.user_id = ToInt(user_id).n

WantedIds(coll, chat_id, user_id) ==
    LET m == SelectSeq(coll, LAMBDA d : Wanted(d.data, chat_id, user_id))
    IN  [i \in 1..Len(m) |-> m[i].id]

\* C3: on an unchanged store, for every combination of chat_id/user_id
\* filters (none included) and every limit >= 1, calling GET /messages
\* without a token and then with each returned next_page_token returns every
\* matching record once, in insertion order, and ends with an absent token
PagesEnumerate ==
    (pg.phase # "idle" /\ store = pg.snap)
        => /\ pg.phase # "failed"
           /\ pg.phase = "done" => pg.seen = WantedIds(store, pg.chat_id, pg.user_id)

\* C4: GET /messages and POST /messages/batch called with chat_id=X return
\* only records whose chat_id is X, and with user_id=Y only records whose
\* user_id is Y, for every integer X and Y, 0 included
FilterCorrect ==
    (resp.kind \in {"messages", "batch"} /\ resp.status = 200)
        => \A m \in 1..Len(resp.messages) :
                Wanted(resp.messages[m], resp.req.chat_id, resp.req.user_id)

\* the documents of coll that have every filtered field, equal to the
\* filter's value
Exact(coll, filters) ==
    SelectSeq(coll, LAMBDA d :
        \A i \in 1..Len(filters) :
            /\ filters[i].field \in DOMAIN d.data
            /\ d.data[filters[i].field] = filters[i].value)

\* C5: stream() of a query built with where filters returns exactly the
\* records that have every filtered field equal to the given value; a
\* record that lacks a filtered field is not returned
WhereExact ==
    (repo.phase = "streamed" /\ repo.q.limit_value = <<>> /\ repo.q.start_after_doc = <<>>)
        => /\ repo.test = Exact(repo.coll, repo.q.filters)
           /\ repo.mock = Exact(repo.coll, repo.q.filters)

\* C6: stream() of a query with limit(n) returns at most n records, the
\* first n of those it returns without the limit, for every n >= 0
LimitCaps ==
    (repo.phase = "streamed" /\ repo.q.limit_value # <<>>)
        => LET n == repo.q.limit_value[1]
               unlimited == [repo.q EXCEPT !.limit_value = <<>>]
           IN  /\ Len(repo.test) <= n
               /\ repo.test = SliceTo(TestStream(repo.coll, unlimited), n)
               /\ Len(repo.mock) <= n
               /\ repo.mock = SliceTo(MockStream(repo.coll, unlimited), n)

\* the position of the document with that id
Position(coll, doc_id) == CHOOSE i \in 1..Len(coll) : coll[i].id = doc_id

\* C7: for every stored record r, matching the filters or not, stream() of
\* a query with start_after(r) returns only records inserted after r
StartAfterStrict ==
    (/\ repo.phase = "streamed"
     /\ repo.q.start_after_doc # <<>>
     /\ \E i \in 1..Len(repo.coll) : repo.coll[i].id = repo.q.start_after_doc[1].id)
        => LET r == Position(repo.coll, repo.q.start_after_doc[1].id)
           IN  /\ \A i \in 1..Len(repo.test) :
                        Position(repo.coll, repo.test[i].id) > r
               /\ \A i \in 1..Len(repo.mock) :
                        Position(repo.coll, repo.mock[i].id) > r

\* C8: in a successful GET /messages response next_page_token is the id of
\* the last record of messages, and it is absent exactly when messages is
\* empty
TokenIsLastId ==
    (resp.kind = "messages" /\ resp.status = 200)
        => /\ resp.next_page_token = <<>> <=> resp.messages = <<>>
           /\ resp.messages # <<>> =>
                resp.next_page_token = <<resp.messages[Len(resp.messages)].id>>

TokenIsLastIdSeen ==
    /\ resp.kind = "messages"
    /\ resp.status = 200
    /\ Len(resp.messages) = 2
    /\ resp.next_page_token = <<SeedId(1)>>

\* C9: when the store holds two messages of one chat, GET /messages?limit=1
\* returns the first with a token, and GET /messages?limit=1 with that token
\* returns the second with an absent token
TwoPages ==
    (/\ pg.phase # "idle"
     /\ pg.snap = SeedDocs
     /\ store = SeedDocs
     /\ pg.chat_id = NoneV
     /\ pg.user_id = NoneV
     /\ pg.limit = StrV(<<49>>))
        => /\ pg.calls = 1 => pg.phase = "open" /\ pg.seen = <<SeedId(0)>>
           /\ pg.calls = 2 => pg.phase = "done" /\ pg.seen = <<SeedId(0), SeedId(1)>>

\* C10: when decryption of some streamed records fails, GET /messages and
\* POST /messages/batch answer as they do when none fails, with one entry
\* per streamed record in stream order; an entry whose decryption failed
\* has the text "[Encrypted]", every other entry its decrypted text
BestEffort ==
    resp.kind \in {"messages", "batch"}
        => LET calm == [resp.req EXCEPT !.down = {}]
               quiet == IF resp.kind = "messages"
                            THEN GetMessagesResponse(store, svc, calm)
                        ELSE BatchResponse(store, svc, calm)
           IN  /\ resp.status = quiet.status
               /\ resp.status = 200 =>
                    /\ Len(resp.messages) = Len(resp.docs)
                    /\ \A i \in 1..Len(resp.docs) :
                        LET dec == DecryptMessage(svc, resp.docs[i].data.encrypted_text, TRUE)
                            failed == i \in resp.req.down \/ ~dec.ok
                        IN  /\ resp.messages[i].id = resp.docs[i].id
                            /\ failed => resp.messages[i].text = StrEncrypted
                            /\ ~failed => resp.messages[i].text = dec.text
                            /\ \A k \in 1..Len(ingested) :
                                (~failed /\ ingested[k].id = resp.docs[i].id)
                                    => resp.messages[i].text = ingested[k].text

BestEffortSeen ==
    /\ resp.kind = "messages"
    /\ resp.status = 200
    /\ resp.req.down = {1}
    /\ Len(resp.messages) = 2
    /\ resp.messages[1].text = StrEncrypted
    /\ resp.messages[2].text = <<65>>

\* C11: every record of a GET /messages or POST /messages/batch response
\* has a text field and no encrypted_text field, the records whose
\* decryption failed included
NoEncryptedText ==
    (resp.kind \in {"messages", "batch"} /\ resp.status = 200)
        => \A m \in 1..Len(resp.messages) :
                /\ "text" \in DOMAIN resp.messages[m]
                /\ "encrypted_text" \notin DOMAIN resp.messages[m]

\* the envelope of a stored record has every field MessageEncryption
\* writes, none of them empty
CompleteEnvelope(data) ==
    /\ "encrypted_text" \in DOMAIN data
    /\ DOMAIN data.encrypted_text =
            {"encrypted_data_key", "iv", "ciphertext", "tag", "salt"}
    /\ \A f \in DOMAIN data.encrypted_text : data.encrypted_text[f] # <<>>

\* C12: when encrypt_message fails while the webhook handles a message, no
\* record is added and the request answers with an error; the store never
\* holds a record without a complete envelope
IngestAllOrNothing ==
    /\ [](\A i \in 1..Len(store) : CompleteEnvelope(store[i].data))
    /\ [][(resp'.kind = "webhook" /\ delivered' # delivered
            /\ resp'.raised = "encrypt_message")
                => (store' = store /\ resp'.status = 500)]_vars

IngestAllOrNothingSeen ==
    /\ resp.kind = "webhook"
    /\ resp.raised = "encrypt_message"
    /\ resp.status = 500
    /\ resp.req.text = <<233, 8364>>
    /\ Len(store) = 1

\* C13: over every sequence of webhook and retrieval requests a stored
\* record keeps its id, its fields and its position, and none is removed;
\* a retrieval, with its removal of encrypted_text from the response and
\* its redaction of failed records, leaves every stored record as it was
AppendOnly ==
    [][/\ Len(store') >= Len(store)
       /\ \A i \in 1..Len(store) : store'[i] = store[i]
       /\ resp'.kind \in {"messages", "batch"} => store' = store]_vars

AppendOnlySeen ==
    /\ resp.kind = "batch"
    /\ resp.status = 200
    /\ Len(store) = 2
    /\ Len(resp.messages) = 2
    /\ resp.messages[2].text = StrEncrypted
    /\ "encrypted_text" \notin DOMAIN resp.messages[1]
    /\ "encrypted_text" \in DOMAIN store[1].data

\* C14: for every envelope encrypt_message produced, changing a bit of its
\* ciphertext or of its tag makes decrypt_message fail; decrypt_message
\* never returns for it a string other than the original plaintext
TamperDetected ==
    (lab.phase = "decrypted" /\ lab.tampered /\ lab.by = lab.service)
        => ~lab.dec.ok

\* C15: an envelope produced by a service configured with master key A is
\* never decrypted by a service configured with another master key B:
\* decrypt_message fails
CrossKeyRejected ==
    (/\ lab.phase = "decrypted"
     /\ ~lab.tampered
     /\ lab.by.kind = lab.service.kind
     /\ lab.by.key_name # lab.service.key_name)
        => ~lab.dec.ok

\* C16: two calls of encrypt_message on one plaintext by one service return
\* envelopes that differ in iv, in ciphertext and in encrypted_data_key, and
\* both decrypt to the plaintext
FreshEnvelopes ==
    (lab.phase = "twice" /\ lab.again.ok)
        => /\ lab.enc.env.iv # lab.again.env.iv
           /\ lab.enc.env.ciphertext # lab.again.env.ciphertext
           /\ lab.enc.env.encrypted_data_key # lab.again.env.encrypted_data_key
           /\ DecryptMessage(lab.service, lab.enc.env, TRUE)
                    = [ok |-> TRUE, text |-> lab.plaintext]
           /\ DecryptMessage(lab.service, lab.again.env, TRUE)
                    = [ok |-> TRUE, text |-> lab.plaintext]

\* C17: document(id) of an id that was never inserted returns, without
\* raising, a document whose exists is false; of an inserted id it returns
\* that record, with exists true
LookupReportsAbsence ==
    repo.phase = "looked"
        => LET stored == {i \in 1..Len(repo.coll) : repo.coll[i].id = repo.doc_id}
           IN  /\ repo.exists <=> stored # {}
               /\ \A i \in stored : repo.doc = repo.coll[i]

\* the ids of a sequence of documents
Ids(docs) == [i \in 1..Len(docs) |-> docs[i].id]

\* C18: for the same collection and the same where, start_after and limit
\* calls, stream() returns the same sequence of ids in TestDatabaseQuery
\* and in MockQuery
VariantsAgree ==
    repo.phase = "streamed" => Ids(repo.test) = Ids(repo.mock)

\* C19: the sequence stream() returned, from a query or from the
\* collection, holds the matching records stored at the moment of the
\* call; a record inserted later never appears in it
SnapshotAtCall ==
    repo.phase \in {"streamed", "listed"}
        => /\ \A i \in 1..Len(repo.test) :
                \E j \in 1..Len(repo.coll) : repo.coll[j].id = repo.test[i].id
           /\ \A i \in 1..Len(repo.mock) :
                \E j \in 1..Len(repo.coll) : repo.coll[j].id = repo.mock[i].id
           /\ repo.phase = "listed" => repo.test = repo.coll /\ repo.mock = repo.coll

\* the collection the client holds under the name
Held == IF conc.colls = 0 THEN <<>> ELSE conc.lists[conc.colls]

\* C20: for every interleaving of add() and stream() calls of several
\* callers on one collection name, one that does not exist before the first
\* add included, every record whose add() completed is in the collection
\* exactly once, and every stream() result is a subsequence, in insertion
\* order, of records that were stored
ConcurrentSafe ==
    \A c \in Callers :
        /\ (conc.th[c].op = "add" /\ conc.th[c].pc = "done")
                => Cardinality({i \in 1..Len(Held) : Held[i] = conc.th[c].doc}) = 1
        /\ (conc.th[c].op = "stream" /\ conc.th[c].pc = "done")
                => \A i \in 1..Len(conc.th[c].out) :
                        \E d \in Callers :
                            /\ conc.th[d].op = "add"
                            /\ conc.th[d].pc = "done"
                            /\ conc.th[d].doc = conc.th[c].out[i]

\* the envelope has a field missing, an iv that is not 12 bytes or a tag
\* that is not 16 bytes
Malformed(env) ==
    \/ ~({"encrypted_data_key", "iv", "ciphertext", "tag"} \subseteq DOMAIN env)
    \/ Len(B64Decode(env.iv).b) # 12
    \/ Len(B64Decode(env.tag).b) # 16

\* C21: decrypt_message of MessageEncryption rejects an envelope whose iv
\* is not 12 bytes, whose tag is not 16 bytes or that lacks a field, and it
\* does so before the key service is asked to unwrap the data key
FailFast ==
    (lab.phase = "decrypted" /\ lab.by.kind = "kms" /\ Malformed(lab.enc.env))
        => (~lab.dec.ok /\ ~KmsDecryptRequested(lab.enc.env))

\* C22: for every plaintext, the empty string included, and every
\* encryption service, the envelope encrypt_message returns has the five
\* fields ciphertext, encrypted_data_key, iv, tag and salt, and its iv, tag,
\* encrypted_data_key and salt are not empty
UniformEnvelope ==
    (lab.phase \in {"encrypted", "decrypted"} /\ lab.enc.ok)
        => /\ {"ciphertext", "encrypted_data_key", "iv", "tag", "salt"}
                    \subseteq DOMAIN lab.enc.env
           /\ \A f \in {"encrypted_data_key", "iv", "tag", "salt"} : lab.enc.env[f] # <<>>

\* C23: a successful ingest of a message with non-empty text returns the id
\* the repository assigned to the inserted record, the id under which
\* retrieval returns the record and accepts it as a cursor
ReturnsAssignedId ==
    (/\ resp.kind = "webhook"
     /\ resp.raised = "none"
     /\ resp.status = 200
     /\ resp.req.has_message
     /\ ParseUpdate(resp.req).text # <<>>)
        => /\ ingested # <<>>
           /\ HandleMessageReturn(ParseUpdate(resp.req)) = StrV(store[Len(store)].id)

\* int() refuses the parameter
NotAnInteger(v) == v.t = "str" /\ ~PyInt(v.s).ok

\* the collection is asked for start_after, which only a query has
RepositoryRaises(kind, req) ==
    /\ kind = "messages"
    /\ Truthy(req.start_after)
    /\ ~Truthy(req.chat_id)
    /\ ~Truthy(req.user_id)

\* the request of a retrieval that cannot be carried out
Failing(kind, req) ==
    \/ NotAnInteger(req.limit)
    \/ Truthy(req.chat_id) /\ NotAnInteger(req.chat_id)
    \/ Truthy(req.user_id) /\ NotAnInteger(req.user_id)
    \/ RepositoryRaises(kind, req)

\* C24: a retrieval in which the repository raises, or whose limit or
\* filter value is not an integer, answers with status 500 and an error,
\* returns no messages list, and leaves the store as it was
AbortsWhole ==
    [][(resp'.kind \in {"messages", "batch"} /\ Failing(resp'.kind, resp'.req))
            => /\ resp'.status = 500
               /\ resp'.body = "error"
               /\ resp'.messages = <<>>
               /\ resp'.next_page_token = <<>>
               /\ store' = store]_vars

AbortsWholeSeen ==
    /\ resp.kind = "messages"
    /\ NotAnInteger(resp.req.limit)
    /\ resp.req.start_after = StrV(Uuid(3))
    /\ Len(store) = 3
    /\ resp.status = 500

\* C25: a webhook request whose secret is wrong is answered 500, one whose
\* update carries no message is answered 200 ok, and neither adds a record
\* to the store nor sends a reply to any chat
RejectedHasNoEffect ==
    [][(delivered' # delivered /\ (resp'.raised = "abort" \/ ~resp'.req.has_message))
            => /\ resp'.status = IF resp'.raised = "abort" THEN 500 ELSE 200
               /\ store' = store
               /\ sent' = sent]_vars

IndependentApps ==
    apps.last.app # 0
        => LET returned == {apps.last.message_ids[i] : i \in 1..Len(apps.last.message_ids)}
           IN  /\ {1, 2} \subseteq returned
               /\ \A i \in 1..Len(apps.posts) :
                      (apps.posts[i].message_id \in returned)
                          <=> (apps.posts[i].app = apps.last.app)

\* C28: under every interleaving of the getter calls of one container,
\* first calls made at the same time by several request threads included,
\* at most one database client and at most one message handler are built,
\* and the handler and every retrieval work on the same client
OneInstance ==
    /\ apps.clients <= 1
    /\ apps.handlers <= 1
    /\ \A c, d \in Callers :
            (apps.th[c].pc = "done" /\ apps.th[d].pc = "done")
                => apps.th[c].got = apps.th[d].got

\* C29: whenever the webhook answers an update with an error (status 500),
\* no record for that update has been added to the store
ErrorMeansNotStored ==
    [][(delivered' # delivered /\ resp'.status = 500)
            => (store' = store /\ ingested' = ingested)]_vars

\* C30: for every combination of filters, none included, and every limit,
\* GET /messages with a start_after that is the id of no stored record
\* succeeds and returns the messages and the next_page_token of the same
\* call without start_after
UnknownTokenIgnored ==
    (/\ resp.kind = "messages"
     /\ resp.req.start_after = StrV(UnknownToken)
     /\ \A i \in 1..Len(store) : store[i].id # UnknownToken)
        => LET plain == GetMessagesResponse(store, svc,
                            [resp.req EXCEPT !.start_after = NoneV])
           IN  plain.status = 200
                  => /\ resp.status = 200
                     /\ resp.messages = plain.messages
                     /\ resp.next_page_token = plain.next_page_token

=============================================================================
